---------------------------- MODULE Spec2Model ----------------------------
(***************************************************************************)
(* Design-token migration / verification scripts, interlinking scripts and *)
(* theme selection of the inbound marketing sites.                         *)
(*                                                                         *)
(* Page text is modelled as TLA+ strings, character by character: Len,     *)
(* SubSeq and \o act on strings as they do on sequences.  Positions are    *)
(* 1-based; 0 stands for JavaScript's "not found" (-1).                    *)
(***************************************************************************)
EXTENDS Integers, Sequences, FiniteSets, TLC

VARIABLES
    input,        \* the text of the file as it was before any script ran
    content,      \* the text of the file on disk (apply-tokens / verify-design-tokens)
    passes,       \* number of apply-tokens runs over the file so far
    tokenOut,     \* outcome of the most recent token script run
    pages0,       \* the site directory as it was before any script ran: file |-> text
    pages,        \* the site directory on disk: file |-> text
    linkMap,      \* interlinking-map.json: [readable, patterns]
    linkRuns,     \* number of apply-interlinking-map runs so far
    linkOut,      \* outcome of the most recent interlinking script run
    unreadable,   \* files of the site directory whose fs.readFileSync throws
    hasDocument,  \* typeof document !== "undefined"
    dataTheme,    \* document.documentElement.dataset.theme ("" : unset or empty)
    stored,       \* localStorage.getItem("theme") (NoValue: no such item)
    storage,      \* how localStorage behaves: "ok", "readonly" (setItem throws), "denied"
    selected,     \* value shown by the mounted ThemeSwitcher select (NoValue: not mounted)
    themeOut      \* the most recent theme call and its outcome

tokenVars == <<input, content, passes, tokenOut>>

linkVars == <<pages0, pages, linkMap, linkRuns, linkOut, unreadable>>

themeVars == <<hasDocument, dataTheme, stored, storage, selected, themeOut>>

vars == <<tokenVars, linkVars, themeVars>>

-----------------------------------------------------------------------------
(* String primitives (String.prototype.indexOf / includes / replace / trim) *)

Min(S) == CHOOSE x \in S : \A y \in S : x <= y

Max(S) == CHOOSE x \in S : \A y \in S : x >= y

CharAt(s, i) == IF 1 <= i /\ i <= Len(s) THEN SubSeq(s, i, i) ELSE ""

StartsAt(s, k, i) == i >= 1 /\ i + Len(k) - 1 <= Len(s) /\ SubSeq(s, i, i + Len(k) - 1) = k

Occurrences(s, k) == {i \in 1..(Len(s) - Len(k) + 1) : SubSeq(s, i, i + Len(k) - 1) = k}

indexOf(s, k) == IF Occurrences(s, k) = {} THEN 0 ELSE Min(Occurrences(s, k))

includes(s, k) == Occurrences(s, k) # {}

\* s.replace(new RegExp(escaped(k), 'g'), v): every occurrence of the literal
\* k, leftmost first, non-overlapping; v holds no '$' so it is inserted as is.
RECURSIVE ReplaceAllLiteral(_, _, _)
ReplaceAllLiteral(s, k, v) ==
    LET i == indexOf(s, k)
    IN  IF i = 0 THEN s
        ELSE SubSeq(s, 1, i - 1) \o v \o
             ReplaceAllLiteral(SubSeq(s, i + Len(k), Len(s)), k, v)

UpperToLower ==
    [c \in {"A","B","C","D","E","F","G","H","I","J","K","L","M",
            "N","O","P","Q","R","S","T","U","V","W","X","Y","Z"} |->
        CASE c = "A" -> "a" [] c = "B" -> "b" [] c = "C" -> "c" [] c = "D" -> "d"
          [] c = "E" -> "e" [] c = "F" -> "f" [] c = "G" -> "g" [] c = "H" -> "h"
          [] c = "I" -> "i" [] c = "J" -> "j" [] c = "K" -> "k" [] c = "L" -> "l"
          [] c = "M" -> "m" [] c = "N" -> "n" [] c = "O" -> "o" [] c = "P" -> "p"
          [] c = "Q" -> "q" [] c = "R" -> "r" [] c = "S" -> "s" [] c = "T" -> "t"
          [] c = "U" -> "u" [] c = "V" -> "v" [] c = "W" -> "w" [] c = "X" -> "x"
          [] c = "Y" -> "y" [] c = "Z" -> "z"]

\* Case folding of the regular expressions' i flag (ASCII letters)
RECURSIVE Lower(_)
Lower(s) ==
    IF Len(s) = 0 THEN ""
    ELSE IF Len(s) = 1 THEN (IF s \in DOMAIN UpperToLower THEN UpperToLower[s] ELSE s)
    ELSE LET h == Len(s) \div 2
         IN  Lower(SubSeq(s, 1, h)) \o Lower(SubSeq(s, h + 1, Len(s)))

Digits == {"0","1","2","3","4","5","6","7","8","9"}

\* \s
Whitespace == {" ", "\n", "\t", "\r"}

\* \w
WordChars ==
    Digits \cup {"_"} \cup DOMAIN UpperToLower \cup {UpperToLower[c] : c \in DOMAIN UpperToLower}

\* index of the last character of the longest run of characters of class C
\* that starts at i (i - 1 when the run is empty)
RunEnd(s, i, C) ==
    LET stops == {j \in i..Len(s) : SubSeq(s, j, j) \notin C}
    IN  IF stops = {} THEN Len(s) ELSE Min(stops) - 1

\* String.prototype.trim
Trim(s) ==
    LET keep == {j \in 1..Len(s) : SubSeq(s, j, j) \notin Whitespace}
    IN  IF keep = {} THEN "" ELSE SubSeq(s, Min(keep), Max(keep))

\* text.substring(0, idx).split('\n').length, idx the 1-based position (0: not found,
\* for which JavaScript's substring(0, -1) is the empty string)
LineOf(s, idx) ==
    Cardinality({j \in 1..(idx - 1) : SubSeq(s, j, j) = "\n"}) + 1

-----------------------------------------------------------------------------
(* apply-tokens.js: mapping tables, each in Object.entries order           *)

COLOR_MAPPINGS ==
    <<
       <<"#16324F", "var(--color-brand-primary)">>,
       <<"#FF7A00", "var(--color-brand-secondary)">>,
       <<"#32C671", "var(--color-brand-accent)">>,
       <<"#005F5F", "var(--color-brand-teal-primary)">>,
       <<"#008080", "var(--color-brand-teal-secondary)">>,
       <<"#4A9B9B", "var(--color-brand-teal-light)">>,
       <<"#FFFFFF", "var(--color-surface-primary)">>,
       <<"#F6F8FB", "var(--color-surface-secondary)">>,
       <<"#FAFAFA", "var(--color-surface-secondary)">>,
       <<"#0F172A", "var(--color-text-primary)">>,
       <<"#475569", "var(--color-text-muted)">>,
       <<"#E2E8F0", "var(--color-border-primary)">>,
       <<"#E5E5E5", "var(--color-border-primary)">>,
       <<"#cbd5e1", "var(--color-text-muted)">>,
       <<"#F59E0B", "var(--color-state-warning)">>,
       <<"#dbeafe", "var(--color-surface-tertiary)">>,
       <<"#F8FAFF", "var(--color-surface-tertiary)">>
    >>

SPACING_MAPPINGS ==
    <<
       <<"0.375rem", "var(--space-sm)">>,
       <<"0.75rem", "var(--space-lg)">>,
       <<"1rem", "var(--space-xl)">>,
       <<"1.5rem", "var(--space-2xl)">>,
       <<"2rem", "var(--space-3xl)">>,
       <<"3rem", "var(--space-4xl)">>,
       <<"4rem", "var(--space-5xl)">>
    >>

FONT_SIZE_MAPPINGS ==
    <<
       <<"clamp(2rem, 2.5vw + 1.2rem, 3rem)", "var(--font-size-hero)">>,
       <<"clamp(1.375rem, 1.5vw + 1rem, 2rem)", "var(--font-size-h2)">>,
       <<"1rem", "var(--font-size-base)">>,
       <<"0.9rem", "var(--font-size-sm)">>,
       <<"1.1rem", "var(--font-size-lg)">>,
       <<"1.2rem", "var(--font-size-xl)">>
    >>

SHADOW_MAPPINGS ==
    <<
       <<"0 1px 2px rgba(0,0,0,.06)", "var(--shadow-sm)">>,
       <<"0 6px 16px rgba(0,0,0,.10)", "var(--shadow-base)">>,
       <<"0 4px 8px rgba(0,0,0,.08)", "var(--shadow-base)">>,
       <<"0 8px 16px rgba(0,0,0,.12)", "var(--shadow-md)">>,
       <<"0 16px 32px rgba(0,0,0,.16)", "var(--shadow-lg)">>
    >>

RADIUS_MAPPINGS ==
    <<
       <<"0.5rem", "var(--radius-base)">>,
       <<"0.75rem", "var(--radius-md)">>,
       <<"1rem", "var(--radius-lg)">>,
       <<"0.4rem", "var(--radius-base)">>,
       <<"0.6rem", "var(--radius-base)">>,
       <<"999px", "var(--radius-full)">>,
       <<"9999px", "var(--radius-full)">>
    >>

LINE_HEIGHT_MAPPINGS ==
    <<
       <<"1.15", "var(--line-height-tight)">>,
       <<"1.6", "var(--line-height-relaxed)">>,
       <<"1.5", "var(--line-height-normal)">>
    >>

\* a table whose token names repeat the literals they stand for
FONT_WEIGHT_MAPPINGS_Named ==
    <<
       <<"400", "var(--font-weight-400)">>,
       <<"500", "var(--font-weight-500)">>,
       <<"600", "var(--font-weight-600)">>,
       <<"700", "var(--font-weight-700)">>
    >>

FONT_WEIGHT_MAPPINGS ==
    <<
       <<"400", "var(--font-weight-normal)">>,
       <<"500", "var(--font-weight-medium)">>,
       <<"600", "var(--font-weight-semibold)">>,
       <<"700", "var(--font-weight-bold)">>
    >>

LETTER_SPACING_MAPPINGS ==
    <<
       <<"0.06em", "var(--letter-spacing-widest)">>
    >>

MAX_WIDTH_MAPPINGS ==
    <<
       <<"1200px", "var(--max-width-wrap)">>
    >>

Z_INDEX_MAPPINGS ==
    <<
       <<"50", "var(--z-sticky)">>,
       <<"1000", "var(--z-skipLink)">>
    >>

TRANSITION_MAPPINGS ==
    <<
       <<"0.15s", "var(--transition-duration-fast)">>,
       <<"0.25s", "var(--transition-duration-base)">>,
       <<"0.4s", "var(--transition-duration-slow)">>,
       <<"0.3s", "var(--transition-duration-base)">>
    >>

FONT_FAMILY_MAPPINGS ==
    <<
       <<"ui-sans-serif, system-ui, -apple-system, Segoe UI, Roboto, Inter, \"Helvetica Neue\", Arial, \"Noto Sans\", \"Liberation Sans\", sans-serif", "var(--font-family-sans)">>
    >>

allMappings ==
    << COLOR_MAPPINGS, SPACING_MAPPINGS, FONT_SIZE_MAPPINGS, SHADOW_MAPPINGS,
       RADIUS_MAPPINGS, LINE_HEIGHT_MAPPINGS, FONT_WEIGHT_MAPPINGS,
       LETTER_SPACING_MAPPINGS, MAX_WIDTH_MAPPINGS, Z_INDEX_MAPPINGS,
       TRANSITION_MAPPINGS, FONT_FAMILY_MAPPINGS >>

\* Object.entries(mapping).forEach(([oldValue, newValue]) => replace all).
\* (Len(r) >= 0 is always true: it has r evaluated before the next entry is taken.)
RECURSIVE ApplyMapping(_, _, _)
ApplyMapping(s, mapping, i) ==
    IF i > Len(mapping) THEN s
    ELSE LET r == ReplaceAllLiteral(s, mapping[i][1], mapping[i][2])
         IN  IF Len(r) >= 0 THEN ApplyMapping(r, mapping, i + 1) ELSE r

\* allMappings.forEach(mapping => ...)
RECURSIVE ApplyMappings(_, _, _)
ApplyMappings(s, mappings, j) ==
    IF j > Len(mappings) THEN s
    ELSE LET r == ApplyMapping(s, mappings[j], 1)
         IN  IF Len(r) >= 0 THEN ApplyMappings(r, mappings, j + 1) ELSE r

applyTokenReplacements(text) == ApplyMappings(text, allMappings, 1)

tokenImport == "  <link rel=\"stylesheet\" href=\"src/design-system/tokens/tokens.css\">\n"

\* /<style>/i : the first <style> tag, in any letter case
StyleTagAt(s) == indexOf(Lower(s), "<style>")

addTokenImport(text) ==
    IF includes(text, "tokens.css") THEN text
    ELSE LET i == StyleTagAt(text)
         IN  IF i = 0 THEN text
             ELSE SubSeq(text, 1, i - 1) \o tokenImport \o "  <style>"
                  \o SubSeq(text, i + 7, Len(text))

-----------------------------------------------------------------------------
(* verify-design-tokens.js: the literal matcher                            *)

HexChars == Digits \cup {"a","b","c","d","e","f","A","B","C","D","E","F"}

DigitsDot == Digits \cup {"."}

\* Position after the literal lit at position i; 0 when it is not there
\* (0 propagates: a failed step makes every later step fail).
Expect(s, i, lit) == IF i > 0 /\ StartsAt(s, lit, i) THEN i + Len(lit) ELSE 0

\* Position after \s* at i
SkipWs(s, i) == IF i > 0 THEN RunEnd(s, i, Whitespace) + 1 ELSE 0

\* Position after [C]+ at i
Plus(s, i, C) ==
    IF i > 0 /\ i <= Len(s) /\ SubSeq(s, i, i) \in C THEN RunEnd(s, i, C) + 1 ELSE 0

\* first position >= i holding the character c; 0 when there is none
NextChar(s, i, c) ==
    LET hits == {j \in i..Len(s) : SubSeq(s, j, j) = c}
    IN  IF i <= 0 \/ hits = {} THEN 0 ELSE Min(hits)

\* /#[0-9a-fA-F]{3,6}(?![a-fA-F0-9])/
HexColorEnd(s, i) ==
    IF ~StartsAt(s, "#", i) THEN 0
    ELSE LET e == RunEnd(s, i + 1, HexChars)
         IN  IF e - i >= 3 /\ e - i <= 6 THEN e ELSE 0

\* (?:,\s*[\d.]+)?\s*\)  : position after it
AlphaTail(s, q) ==
    LET r == IF StartsAt(s, ",", q) THEN Plus(s, SkipWs(s, q + 1), DigitsDot) ELSE q
    IN  Expect(s, SkipWs(s, r), ")")

\* fn a? \( \s* first \s* , \s* [rest]+ \s* , \s* [rest]+ \s* alpha-tail
ColorFnEnd(s, i, fn, first, rest) ==
    LET a  == Expect(s, i, fn)
        b  == IF StartsAt(s, "a", a) THEN a + 1 ELSE a
        c1 == Plus(s, SkipWs(s, Expect(s, b, "(")), first)
        c2 == Plus(s, SkipWs(s, Expect(s, SkipWs(s, c1), ",")), rest)
        c3 == Plus(s, SkipWs(s, Expect(s, SkipWs(s, c2), ",")), rest)
        z  == AlphaTail(s, SkipWs(s, c3))
    IN  IF z = 0 THEN 0 ELSE z - 1

\* /rgba?\(\s*\d+\s*,\s*\d+\s*,\s*\d+\s*(?:,\s*[\d.]+)?\s*\)/
RgbEnd(s, i) == ColorFnEnd(s, i, "rgb", Digits, Digits)

\* /hsla?\(\s*\d+\s*,\s*[\d.]+\s*,\s*[\d.]+\s*(?:,\s*[\d.]+)?\s*\)/
HslEnd(s, i) == ColorFnEnd(s, i, "hsl", Digits, DigitsDot)

SpacingLiterals ==
    <<"0.25rem", "0.375rem", "0.5rem", "0.75rem", "1rem", "1.25rem", "1.5rem",
      "2rem", "3rem", "4rem">>

FontSizeLiterals ==
    <<"0.75rem", "0.875rem", "1rem", "1.125rem", "1.25rem", "1.5rem", "1.875rem",
      "2.25rem", "3rem">>

RadiusLiterals == <<"0.25rem", "0.5rem", "0.75rem", "1rem", "1.5rem">>

\* /(?<!\w)(?:alt1|alt2|...)(?!\w)/ : the first alternative that fits at i
WordAltEnd(s, i, alts) ==
    LET fits == {k \in 1..Len(alts) :
                    /\ StartsAt(s, alts[k], i)
                    /\ CharAt(s, i + Len(alts[k])) \notin WordChars}
    IN  IF i < 1 \/ i > Len(s) \/ CharAt(s, i - 1) \in WordChars \/ fits = {} THEN 0
        ELSE i + Len(alts[Min(fits)]) - 1

\* /box-shadow:\s*[^;]*rgba?\([^)]*\)[^;]*;/ : the greedy [^;]* settles on the
\* last rgb( / rgba( before the first ';' that is followed by a ')' and then a ';'
BoxShadowEnd(s, i) ==
    IF ~StartsAt(s, "box-shadow:", i) THEN 0
    ELSE LET b     == i + 11
             semi  == NextChar(s, b, ";")
             limit == IF semi = 0 THEN Len(s) ELSE semi - 1
             open(p) == IF StartsAt(s, "rgb(", p) THEN p + 4
                        ELSE IF StartsAt(s, "rgba(", p) THEN p + 5 ELSE 0
             end(p)  == LET cl == NextChar(s, open(p), ")")
                        IN  IF cl = 0 THEN 0 ELSE NextChar(s, cl + 1, ";")
             cands == {p \in b..limit : open(p) > 0 /\ end(p) > 0}
         IN  IF cands = {} THEN 0 ELSE end(Max(cands))

\* /z-index:\s*\d+/
ZIndexEnd(s, i) ==
    LET z == Plus(s, SkipWs(s, Expect(s, i, "z-index:")), Digits)
    IN  IF z = 0 THEN 0 ELSE z - 1

\* HARDCODED_PATTERNS[index]: the last position of the match that starts at i,
\* 0 when the pattern does not match at i
HARDCODED_PATTERNS(index, s, i) ==
    CASE index = 0 -> HexColorEnd(s, i)
      [] index = 1 -> RgbEnd(s, i)
      [] index = 2 -> HslEnd(s, i)
      [] index = 3 -> WordAltEnd(s, i, SpacingLiterals)
      [] index = 4 -> WordAltEnd(s, i, FontSizeLiterals)
      [] index = 5 -> WordAltEnd(s, i, RadiusLiterals)
      [] index = 6 -> BoxShadowEnd(s, i)
      [] index = 7 -> ZIndexEnd(s, i)

NumHardcodedPatterns == 8

\* content.match(pattern) with the g flag: every match, leftmost first,
\* each search resuming after the previous match
RECURSIVE MatchHardcoded(_, _, _)
MatchHardcoded(index, s, from) ==
    LET starts == {i \in from..Len(s) : HARDCODED_PATTERNS(index, s, i) > 0}
    IN  IF starts = {} THEN <<>>
        ELSE LET i == Min(starts)
                 e == HARDCODED_PATTERNS(index, s, i)
             IN  <<SubSeq(s, i, e)>> \o MatchHardcoded(index, s, e + 1)

ALLOWED_EXCEPTIONS ==
    <<"0px", "0rem", "0", "1px", "2px", "3px", "4px", "8px",
      "100%", "50%", "auto", "none", "transparent", "inherit",
      "currentColor", "initial", "unset">>

\* ALLOWED_EXCEPTIONS.some(exception => match.includes(exception))
isException(match) ==
    \E k \in 1..Len(ALLOWED_EXCEPTIONS) : includes(match, ALLOWED_EXCEPTIONS[k])

HardcodedIssue(text, filePath, match, index) ==
    [type |-> "hardcoded_value", file |-> filePath,
     line |-> LineOf(text, indexOf(text, match)),
     value |-> Trim(match), pattern |-> index]

RECURSIVE IssuesOfMatches(_, _, _, _, _)
IssuesOfMatches(text, filePath, matches, index, k) ==
    IF k > Len(matches) THEN <<>>
    ELSE (IF isException(matches[k]) THEN <<>>
          ELSE <<HardcodedIssue(text, filePath, matches[k], index)>>)
         \o IssuesOfMatches(text, filePath, matches, index, k + 1)

RECURSIVE HardcodedFrom(_, _, _)
HardcodedFrom(text, filePath, index) ==
    IF index >= NumHardcodedPatterns THEN <<>>
    ELSE IssuesOfMatches(text, filePath, MatchHardcoded(index, text, 1), index, 1)
         \o HardcodedFrom(text, filePath, index + 1)

findHardcodedValues(text, filePath) == HardcodedFrom(text, filePath, 0)

-----------------------------------------------------------------------------
(* verify-design-tokens.js: undefined and legacy token checks              *)

\* src/design-system/tokens/tokens.css, as far as the repository shows it
TOKENS_CSS ==
    "--color-brand-primary: #000000; /* Black */\n"
    \o "--color-brand-secondary: #ffd700; /* Gold */\n"
    \o "--color-brand-accent: #ffff00; /* Bright Yellow */\n"
    \o "--color-brand-teal-primary: #005f5f; /* Dark Teal */\n"
    \o "--color-brand-teal-secondary: #008080; /* Medium Teal */\n"
    \o "--color-brand-teal-light: #4a9b9b; /* Light Teal */\n"

\* /var\(--[^)]+\)/
VarRefEnd(s, i) ==
    LET cl == NextChar(s, Expect(s, i, "var(--"), ")")
    IN  IF cl >= i + 7 THEN cl ELSE 0

\* /--[^:]+:/
DeclNameEnd(s, i) ==
    LET co == NextChar(s, Expect(s, i, "--"), ":")
    IN  IF co >= i + 3 THEN co ELSE 0

RECURSIVE MatchVarRefs(_, _)
MatchVarRefs(s, from) ==
    LET starts == {i \in from..Len(s) : VarRefEnd(s, i) > 0}
    IN  IF starts = {} THEN <<>>
        ELSE LET i == Min(starts)
             IN  <<SubSeq(s, i, VarRefEnd(s, i))>> \o MatchVarRefs(s, VarRefEnd(s, i) + 1)

RECURSIVE MatchDeclNames(_, _)
MatchDeclNames(s, from) ==
    LET starts == {i \in from..Len(s) : DeclNameEnd(s, i) > 0}
    IN  IF starts = {} THEN <<>>
        ELSE LET i == Min(starts)
             IN  <<SubSeq(s, i, DeclNameEnd(s, i))>> \o MatchDeclNames(s, DeclNameEnd(s, i) + 1)

\* match.replace(/[:\s]/g, '')
RECURSIVE StripColonWs(_)
StripColonWs(m) ==
    IF Len(m) = 0 THEN ""
    ELSE IF Len(m) = 1 THEN (IF m \in Whitespace \cup {":"} THEN "" ELSE m)
    ELSE LET h == Len(m) \div 2
         IN  StripColonWs(SubSeq(m, 1, h)) \o StripColonWs(SubSeq(m, h + 1, Len(m)))

\* availableTokens of findUnusedTokens, read from tokens.css
availableTokens ==
    LET decls == MatchDeclNames(TOKENS_CSS, 1)
    IN  {StripColonWs(decls[k]) : k \in 1..Len(decls)}

\* match.replace(/var\(--|\)/g, '')
TokenNameOf(match) == ReplaceAllLiteral(ReplaceAllLiteral(match, "var(--", ""), ")", "")

\* [...new Set(names)] : first occurrences, in order
RECURSIVE Unique(_, _)
Unique(seq, k) ==
    IF k > Len(seq) THEN <<>>
    ELSE (IF \E j \in 1..(k - 1) : seq[j] = seq[k] THEN <<>> ELSE <<seq[k]>>)
         \o Unique(seq, k + 1)

RECURSIVE UndefinedFrom(_, _, _, _)
UndefinedFrom(text, filePath, used, k) ==
    IF k > Len(used) THEN <<>>
    ELSE (IF used[k] \in availableTokens THEN <<>>
          ELSE <<[type |-> "undefined_token", file |-> filePath,
                  line |-> LineOf(text, indexOf(text, "var(--" \o used[k] \o ")")),
                  token |-> used[k]]>>)
         \o UndefinedFrom(text, filePath, used, k + 1)

findUnusedTokens(text, filePath) ==
    LET tokenMatches == MatchVarRefs(text, 1)
        usedTokens == Unique([k \in 1..Len(tokenMatches) |-> TokenNameOf(tokenMatches[k])], 1)
    IN  UndefinedFrom(text, filePath, usedTokens, 1)

\* legacyPatterns: prefix, then one character of class (when not empty), not
\* followed by any of notNext
legacyPatterns ==
    << [prefix |-> "--color-brand", class |-> {}, notNext |-> {"-"},
        replacement |-> "--color-brand-primary", message |-> "Use semantic brand color tokens"],
       [prefix |-> "--color-accent", class |-> {}, notNext |-> {"-"},
        replacement |-> "--color-brand-secondary", message |-> "Use semantic brand color tokens"],
       [prefix |-> "--color-surface-alt", class |-> {}, notNext |-> {},
        replacement |-> "--color-surface-secondary", message |-> "Use semantic surface color tokens"],
       [prefix |-> "--fs-", class |-> {}, notNext |-> {"hero", "h2"},
        replacement |-> "--font-size-", message |-> "Use semantic font size tokens"],
       [prefix |-> "--lh-", class |-> {}, notNext |-> {"tight", "body"},
        replacement |-> "--line-height-", message |-> "Use semantic line height tokens"],
       [prefix |-> "--space-", class |-> {"1","2","3","4","5","6","7"}, notNext |-> {},
        replacement |-> "--space-", message |-> "Use semantic spacing tokens"],
       [prefix |-> "--radius-", class |-> {"1","2","3"}, notNext |-> {},
        replacement |-> "--radius-", message |-> "Use semantic radius tokens"],
       [prefix |-> "--shadow-", class |-> {"1","2","3","4"}, notNext |-> {},
        replacement |-> "--shadow-", message |-> "Use semantic shadow tokens"] >>

LegacyEnd(lp, s, i) ==
    LET e == IF lp.class = {} THEN i + Len(lp.prefix) - 1 ELSE i + Len(lp.prefix)
    IN  IF /\ StartsAt(s, lp.prefix, i)
           /\ (lp.class = {} \/ CharAt(s, e) \in lp.class)
           /\ \A x \in lp.notNext : ~StartsAt(s, x, e + 1)
        THEN e ELSE 0

RECURSIVE MatchLegacy(_, _, _)
MatchLegacy(lp, s, from) ==
    LET starts == {i \in from..Len(s) : LegacyEnd(lp, s, i) > 0}
    IN  IF starts = {} THEN <<>>
        ELSE LET i == Min(starts)
             IN  <<SubSeq(s, i, LegacyEnd(lp, s, i))>> \o MatchLegacy(lp, s, LegacyEnd(lp, s, i) + 1)

\* match.replace(pattern, replacement)
RECURSIVE ReplaceLegacy(_, _)
ReplaceLegacy(lp, s) ==
    LET starts == {i \in 1..Len(s) : LegacyEnd(lp, s, i) > 0}
    IN  IF starts = {} THEN s
        ELSE LET i == Min(starts)
             IN  SubSeq(s, 1, i - 1) \o lp.replacement
                 \o ReplaceLegacy(lp, SubSeq(s, LegacyEnd(lp, s, i) + 1, Len(s)))

LegacyIssue(text, filePath, lp, match) ==
    [type |-> "legacy_token", file |-> filePath,
     line |-> LineOf(text, indexOf(text, match)),
     value |-> match, suggestion |-> ReplaceLegacy(lp, match), message |-> lp.message]

RECURSIVE LegacyFrom(_, _, _)
LegacyFrom(text, filePath, n) ==
    IF n > Len(legacyPatterns) THEN <<>>
    ELSE LET ms == MatchLegacy(legacyPatterns[n], text, 1)
         IN  [k \in 1..Len(ms) |-> LegacyIssue(text, filePath, legacyPatterns[n], ms[k])]
             \o LegacyFrom(text, filePath, n + 1)

findLegacyTokens(text, filePath) == LegacyFrom(text, filePath, 1)

\* analyzeFile of verify-design-tokens.js, on the text read from filePath
analyzeFileTokens(text, filePath) ==
    LET hardcodedIssues == findHardcodedValues(text, filePath)
        unusedTokenIssues == findUnusedTokens(text, filePath)
        legacyTokenIssues == findLegacyTokens(text, filePath)
    IN  [file |-> filePath, hardcoded |-> hardcodedIssues, unused |-> unusedTokenIssues,
         legacy |-> legacyTokenIssues,
         total |-> Len(hardcodedIssues) + Len(unusedTokenIssues) + Len(legacyTokenIssues)]

-----------------------------------------------------------------------------
(* The token scripts as a state machine over one page, index.html          *)

MaxPasses == 2

MaxLines == 2

PagePath == "index.html"

RECURSIVE MappingKeys(_, _)
MappingKeys(mappings, j) ==
    IF j > Len(mappings) THEN {}
    ELSE {mappings[j][k][1] : k \in 1..Len(mappings[j])} \cup MappingKeys(mappings, j + 1)

\* Literals a page may hold: every key of the mapping tables, and values near them
TokenLiterals ==
    MappingKeys(allMappings, 1) \cup
    { "#FFD700", "#ffffff", "#FFF", "#1234567", "1500", "10000", "0.5", "11rem",
      "1.25rem", "var(--space-1)", "var(--old-space-1)", "var(--opacity-50)",
      "var(--color-brand-primary)", "var(--fs-hero)", "var(--color-brand)",
      "box-shadow: 0 1px 2px rgba(0,0,0,.06);", "rgb(22, 50, 79)", "z-index: 50",
      "auto", "2px" }

\* Text around a literal: <<before, after>>
TokenContexts ==
    { <<"", "">>, <<"color: ", ";">>, <<"1", "0">>, <<"0.", "rem">>,
      <<"<style>p{margin:", "}</style>">> }

\* Literals that also come on several lines
RepeatedLiterals ==
    { "#FFD700", "#16324F", "1rem", "1.25rem", "var(--space-1)", "z-index: 51" }

RECURSIVE JoinLines(_, _)
JoinLines(line, n) == IF n <= 1 THEN line ELSE line \o "\n" \o JoinLines(line, n - 1)

TokenInputs ==
    {c[1] \o m \o c[2] : c \in TokenContexts, m \in TokenLiterals}
    \cup {JoinLines("padding: " \o m \o ";", n) : m \in RepeatedLiterals, n \in 2..MaxLines}

NoRun == [cmd |-> "none"]

NoValue == "(null)"

\* The subsystems a specification does not exercise stay as they are here
TokensIdle ==
    /\ input = ""
    /\ content = ""
    /\ passes = 0
    /\ tokenOut = NoRun

LinksIdle ==
    /\ pages0 = <<>>
    /\ pages = <<>>
    /\ linkMap = [readable |-> FALSE, patterns |-> <<>>]
    /\ linkRuns = 0
    /\ linkOut = NoRun
    /\ unreadable = {}

ThemeIdle ==
    /\ hasDocument = FALSE
    /\ dataTheme = ""
    /\ stored = NoValue
    /\ storage = "ok"
    /\ selected = NoValue
    /\ themeOut = NoRun

InitTokens ==
    /\ input \in TokenInputs
    /\ content = input
    /\ passes = 0
    /\ tokenOut = NoRun
    /\ LinksIdle
    /\ ThemeIdle

\* apply-tokens.js main: processFile over the page
ApplyTokens ==
    /\ passes < MaxPasses
    /\ content' = addTokenImport(applyTokenReplacements(content))
    /\ passes' = passes + 1
    /\ tokenOut' = [cmd |-> "apply-tokens"]
    /\ UNCHANGED <<input, linkVars, themeVars>>

\* verify-design-tokens.js main: analyzeFile over the page, exit status 1 on issues
VerifyTokensReport(result) ==
    [cmd |-> "verify-design-tokens", results |-> <<result>>,
     exit |-> IF result.total > 0 THEN 1 ELSE 0]

VerifyTokens ==
    /\ tokenOut' = VerifyTokensReport(analyzeFileTokens(content, PagePath))
    /\ UNCHANGED <<input, content, passes, linkVars, themeVars>>

NextTokens == ApplyTokens \/ VerifyTokens

TokenSpec == InitTokens /\ [][NextTokens]_vars

-----------------------------------------------------------------------------
(* apply-interlinking-map.js: updateLinksInContent                         *)

Quotes == {"\"", "'"}

LineTerminators == {"\n", "\r"}

\* The records of interlinking-map.json: [from, to], each "to" entry
\* [path, anchor, relate]; "" stands for a missing (falsy) path or relate.
\* patterns.find(p => p.from === sourceFile): the first record, 0 when none
FindPattern(map, sourceFile) ==
    LET hits == {k \in 1..Len(map.patterns) : map.patterns[k].from = sourceFile}
    IN  IF hits = {} THEN 0 ELSE Min(hits)

getLinksForFile(map, sourceFile) ==
    IF FindPattern(map, sourceFile) = 0 THEN <<>>
    ELSE map.patterns[FindPattern(map, sourceFile)].to

\* targetPath goes into the RegExp source unescaped: its '.' matches any
\* character but a line terminator; with the i flag letters match in any case.
\* low is the case-folded text.
PathMatchesAt(low, i, targetPath) ==
    /\ i >= 1
    /\ i + Len(targetPath) - 1 <= Len(low)
    /\ \A j \in 1..Len(targetPath) :
          IF SubSeq(targetPath, j, j) = "."
          THEN SubSeq(low, i + j - 1, i + j - 1) \notin LineTerminators
          ELSE SubSeq(low, i + j - 1, i + j - 1) = Lower(SubSeq(targetPath, j, j))

\* new RegExp(`href=["']${targetPath}["']`, 'gi')
HrefPatternEnd(low, i, link) ==
    LET e == i + 6 + Len(link.path)
    IN  IF /\ StartsAt(low, "href=", i)
           /\ CharAt(low, i + 5) \in Quotes
           /\ PathMatchesAt(low, i + 6, link.path)
           /\ CharAt(low, e) \in Quotes
        THEN e ELSE 0

\* new RegExp(`<a[^>]*>\\s*${escaped anchor}\\s*</a>`, 'gi')
TextPatternEnd(low, i, link) ==
    LET gt == IF StartsAt(low, "<a", i) THEN NextChar(low, i + 2, ">") ELSE 0
        p  == Expect(low, SkipWs(low, IF gt = 0 THEN 0 ELSE gt + 1), Lower(link.anchor))
        z  == Expect(low, SkipWs(low, p), "</a>")
    IN  IF z = 0 THEN 0 ELSE z - 1

\* new RegExp(`<a[^>]*title=["']${escaped anchor}["'][^>]*>`, 'gi')
TitlePatternEnd(low, i, link) ==
    LET gt == IF StartsAt(low, "<a", i) THEN NextChar(low, i + 2, ">") ELSE 0
        a  == Lower(link.anchor)
    IN  IF gt > 0 /\ \E j \in (i + 2)..(gt - 1) :
                        /\ StartsAt(low, "title=", j)
                        /\ CharAt(low, j + 6) \in Quotes
                        /\ StartsAt(low, a, j + 7)
                        /\ CharAt(low, j + 7 + Len(a)) \in Quotes
                        /\ j + 7 + Len(a) < gt
        THEN gt ELSE 0

LinkPatternEnd(kind, low, i, link) ==
    CASE kind = 1 -> HrefPatternEnd(low, i, link)
      [] kind = 2 -> TextPatternEnd(low, i, link)
      [] kind = 3 -> TitlePatternEnd(low, i, link)

\* a replace callback that returns every match as it is
RetargetHref_Keep(match, targetPath) == match

\* match.replace(/href=["'][^"']*["']/, `href="${targetPath}"`) when the
\* match includes 'href=' (both in lower case only), else the match as it is
RetargetHref(match, targetPath) ==
    LET close(i) == LET qs == {j \in (i + 6)..Len(match) : SubSeq(match, j, j) \in Quotes}
                    IN  IF qs = {} THEN 0 ELSE Min(qs)
        starts == {i \in 1..Len(match) :
                      /\ StartsAt(match, "href=", i)
                      /\ CharAt(match, i + 5) \in Quotes
                      /\ close(i) > 0}
    IN  IF ~includes(match, "href=") \/ starts = {} THEN match
        ELSE LET i == Min(starts)
             IN  SubSeq(match, 1, i - 1) \o "href=\"" \o targetPath \o "\""
                 \o SubSeq(match, close(i) + 1, Len(match))

\* updatedContent.replace(pattern, match => ...) with the g flag
RECURSIVE RetargetAll(_, _, _)
RetargetAll(s, kind, link) ==
    LET low == Lower(s)
        starts == {i \in 1..Len(s) : LinkPatternEnd(kind, low, i, link) > 0}
    IN  IF starts = {} THEN s
        ELSE LET i == Min(starts)
                 e == LinkPatternEnd(kind, low, i, link)
             IN  SubSeq(s, 1, i - 1) \o RetargetHref(SubSeq(s, i, e), link.path)
                 \o RetargetAll(SubSeq(s, e + 1, Len(s)), kind, link)

\* patterns.forEach(pattern => ...) for one link; relate links are skipped
ApplyLink(s, link) ==
    IF link.relate # "" THEN s
    ELSE LET s1 == RetargetAll(s, 1, link)
             s2 == RetargetAll(s1, 2, link)
         IN  RetargetAll(s2, 3, link)

RECURSIVE ApplyLinksFrom(_, _, _)
ApplyLinksFrom(s, links, k) ==
    IF k > Len(links) THEN s
    ELSE LET r == ApplyLink(s, links[k])
         IN  IF Len(r) >= 0 THEN ApplyLinksFrom(r, links, k + 1) ELSE r

updateLinksInContent(map, text, sourceFile) ==
    LET links == getLinksForFile(map, sourceFile)
    IN  IF Len(links) = 0 THEN text ELSE ApplyLinksFrom(text, links, 1)

-----------------------------------------------------------------------------
(* apply-interlinking-map.js: addStrategicLinks, updateBreadcrumbs         *)

\* String.prototype.replace(literal, v): the first occurrence only
ReplaceFirstLiteral(s, k, v) ==
    LET i == indexOf(s, k)
    IN  IF i = 0 THEN s ELSE SubSeq(s, 1, i - 1) \o v \o SubSeq(s, i + Len(k), Len(s))

\* word.charAt(0).toUpperCase() + word.slice(1)
Capitalize(word) ==
    LET c  == CharAt(word, 1)
        up == {u \in DOMAIN UpperToLower : UpperToLower[u] = c}
    IN  IF up = {} THEN word ELSE (CHOOSE u \in up : TRUE) \o SubSeq(word, 2, Len(word))

\* areaName.split('-').map(capitalize).join(' ')
RECURSIVE CapitalizeWords(_)
CapitalizeWords(s) ==
    LET i == indexOf(s, "-")
    IN  IF i = 0 THEN Capitalize(s)
        ELSE Capitalize(SubSeq(s, 1, i - 1)) \o " " \o CapitalizeWords(SubSeq(s, i + 1, Len(s)))

serviceLinks(capitalizedArea) ==
    "\n"
    \o "      <div style=\"margin-top: var(--space-4); padding: var(--space-3); background: var(--color-surface-secondary); border-radius: var(--radius-base);\">\n"
    \o "        <h3 style=\"margin-top: 0;\">Related Services in "
    \o capitalizedArea
    \o "</h3>\n"
    \o "        <div style=\"display: flex; gap: var(--space-2); flex-wrap: wrap;\">\n"
    \o "          <a href=\"service-residential.html\" class=\"btn btn--ghost\">Residential Moving</a>\n"
    \o "          <a href=\"service-office.html\" class=\"btn btn--ghost\">Office Moving</a>\n"
    \o "          <a href=\"service-delivery.html\" class=\"btn btn--ghost\">Local Delivery</a>\n"
    \o "          <a href=\"quote.html\" class=\"btn btn--primary\">Get Quote</a>\n"
    \o "        </div>\n"
    \o "      </div>\n"
    \o "    "

serviceLinksHtml ==
    "\n"
    \o "      <div style=\"margin-top: var(--space-2); display: flex; gap: var(--space-1); flex-wrap: wrap;\">\n"
    \o "        <a href=\"service-residential.html\" style=\"font-size: 0.85rem; padding: 0.25rem 0.5rem; background: var(--color-surface-secondary); border-radius: var(--radius-full); text-decoration: none; color: var(--color-text-secondary);\">Residential</a>\n"
    \o "        <a href=\"service-office.html\" style=\"font-size: 0.85rem; padding: 0.25rem 0.5rem; background: var(--color-surface-secondary); border-radius: var(--radius-full); text-decoration: none; color: var(--color-text-secondary);\">Office</a>\n"
    \o "      </div>\n"
    \o "    "

\* /<footer[^>]*>/i : <<first, last>> position of the first match, <<0, 0>> when none
FooterTag(s) ==
    LET low == Lower(s)
        starts == {i \in 1..Len(s) : StartsAt(low, "<footer", i) /\ NextChar(low, i + 7, ">") > 0}
    IN  IF starts = {} THEN <<0, 0>> ELSE <<Min(starts), NextChar(low, Min(starts) + 7, ">")>>

\* /(<div class="pill-list">[^<]*<\/div>)/
PillListEnd(s, i) ==
    LET lt == NextChar(s, Expect(s, i, "<div class=\"pill-list\">"), "<")
        z  == Expect(s, lt, "</div>")
    IN  IF z = 0 THEN 0 ELSE z - 1

\* replace(/(<div class="pill-list">[^<]*<\/div>)/g, `$1${serviceLinksHtml}`)
RECURSIVE AfterEachPillList(_)
AfterEachPillList(s) ==
    LET starts == {i \in 1..Len(s) : PillListEnd(s, i) > 0}
    IN  IF starts = {} THEN s
        ELSE LET e == PillListEnd(s, Min(starts))
             IN  SubSeq(s, 1, e) \o serviceLinksHtml \o AfterEachPillList(SubSeq(s, e + 1, Len(s)))

addStrategicLinks(map, text, sourceFile) ==
    LET links == getLinksForFile(map, sourceFile)
        areaName == ReplaceFirstLiteral(ReplaceFirstLiteral(sourceFile, "service-area-", ""),
                                        ".html", "")
        footer == FooterTag(text)
        s1 == IF /\ includes(sourceFile, "service-area-")
                 /\ ~includes(sourceFile, "service-areas.html")
                 /\ footer[1] > 0
              THEN SubSeq(text, 1, footer[1] - 1) \o serviceLinks(CapitalizeWords(areaName))
                   \o "\n  <footer role=\"contentinfo\">" \o SubSeq(text, footer[2] + 1, Len(text))
              ELSE text
    IN  IF Len(links) = 0 THEN text
        ELSE IF sourceFile = "service-areas.html" THEN AfterEachPillList(s1) ELSE s1

\* breadcrumbMappings; the last crumb of each trail has href null
breadcrumbMappings ==
    [f \in {"service-residential.html", "service-office.html", "service-delivery.html",
            "resource-hub.html", "service-areas.html"} |->
        CASE f = "service-residential.html" ->
                <<[name |-> "Home", href |-> "moving-inbound-marketing-home.html"],
                  [name |-> "Services", href |-> "service-residential.html"],
                  [name |-> "Residential Moving", href |-> "null"]>>
          [] f = "service-office.html" ->
                <<[name |-> "Home", href |-> "moving-inbound-marketing-home.html"],
                  [name |-> "Services", href |-> "service-office.html"],
                  [name |-> "Office Moving", href |-> "null"]>>
          [] f = "service-delivery.html" ->
                <<[name |-> "Home", href |-> "moving-inbound-marketing-home.html"],
                  [name |-> "Services", href |-> "service-delivery.html"],
                  [name |-> "Delivery Services", href |-> "null"]>>
          [] f = "resource-hub.html" ->
                <<[name |-> "Home", href |-> "moving-inbound-marketing-home.html"],
                  [name |-> "Resources", href |-> "resource-hub.html"],
                  [name |-> "Resource Hub", href |-> "null"]>>
          [] f = "service-areas.html" ->
                <<[name |-> "Home", href |-> "moving-inbound-marketing-home.html"],
                  [name |-> "Service Areas", href |-> "service-areas.html"],
                  [name |-> "All Areas", href |-> "null"]>>]

\* breadcrumbs.map((crumb, index) => ...).join('')
RECURSIVE JoinCrumbs(_, _)
JoinCrumbs(breadcrumbs, index) ==
    IF index > Len(breadcrumbs) THEN ""
    ELSE (IF index = Len(breadcrumbs)
          THEN "<li style=\"color: var(--color-text-primary); font-weight: var(--font-weight-medium);\">"
               \o breadcrumbs[index].name \o "</li>"
          ELSE "<li><a href=\"" \o breadcrumbs[index].href
               \o "\" style=\"color: var(--color-text-muted); text-decoration: none;\">"
               \o breadcrumbs[index].name
               \o "</a> <span style=\"margin: 0 var(--space-1);\">/</span></li>")
         \o JoinCrumbs(breadcrumbs, index + 1)

breadcrumbHtml(breadcrumbs) ==
    "\n"
    \o "    <nav aria-label=\"Breadcrumb\" style=\"margin-bottom: var(--space-3);\">\n"
    \o "      <ol style=\"display: flex; list-style: none; padding: 0; margin: 0; gap: var(--space-1); font-size: var(--font-size-sm); color: var(--color-text-muted);\">\n"
    \o "        "
    \o JoinCrumbs(breadcrumbs, 1)
    \o "\n"
    \o "      </ol>\n"
    \o "    </nav>\n"
    \o "  "

\* /<\/section>\s*(?=<section|<main)/i : <<first, last>> of the first match
HeroEnd(s) ==
    LET low == Lower(s)
        after(i) == SkipWs(low, i + 10)
        starts == {i \in 1..Len(s) :
                      /\ StartsAt(low, "</section>", i)
                      /\ (StartsAt(low, "<section", after(i)) \/ StartsAt(low, "<main", after(i)))}
    IN  IF starts = {} THEN <<0, 0>> ELSE <<Min(starts), after(Min(starts)) - 1>>

\* /<main[^>]*>/i : <<first, last>> of the first match
MainStart(s) ==
    LET low == Lower(s)
        starts == {i \in 1..Len(s) : StartsAt(low, "<main", i) /\ NextChar(low, i + 5, ">") > 0}
    IN  IF starts = {} THEN <<0, 0>> ELSE <<Min(starts), NextChar(low, Min(starts) + 5, ">")>>

updateBreadcrumbs(text, sourceFile) ==
    IF sourceFile \notin DOMAIN breadcrumbMappings THEN text
    ELSE LET html == breadcrumbHtml(breadcrumbMappings[sourceFile])
             hero == HeroEnd(text)
             main == MainStart(text)
         IN  IF hero[1] > 0
             THEN SubSeq(text, 1, hero[1] - 1) \o "</section>\n  " \o html
                  \o SubSeq(text, hero[2] + 1, Len(text))
             ELSE IF main[1] > 0
             THEN SubSeq(text, 1, main[2]) \o " " \o html \o SubSeq(text, main[2] + 1, Len(text))
             ELSE text

\* processFile of apply-interlinking-map.js: the text written back to filePath
processFileLinks(map, text, filePath) ==
    updateBreadcrumbs(addStrategicLinks(map, updateLinksInContent(map, text, filePath), filePath),
                      filePath)

\* every path of an entry without relate, over all records
RECURSIVE AllTargets(_, _)
AllTargets(map, k) ==
    IF k > Len(map.patterns) THEN {}
    ELSE {map.patterns[k].to[j].path :
             j \in {j \in 1..Len(map.patterns[k].to) :
                       map.patterns[k].to[j].path # "" /\ map.patterns[k].to[j].relate = ""}}
         \cup AllTargets(map, k + 1)

\* validateTargets: fs.existsSync of every target
validateTargets(map, files) == \A target \in AllTargets(map, 1) : target \in files

-----------------------------------------------------------------------------
(* check-links.js                                                          *)

\* /<a[^>]+href=["']([^"']+)["'][^>]*>([^<]*)<\/a>/gi at position i:
\* [href |-> group 1, text |-> group 2, last |-> last position of the match],
\* last = 0 when there is no match at i.  The greedy [^>]+ settles on the last
\* href= of the tag from which the rest of the pattern can be matched.
NoAnchor == [href |-> "", text |-> "", last |-> 0]

AnchorFrom(s, low, h) ==
    LET qs == {j \in (h + 6)..Len(s) : SubSeq(s, j, j) \in Quotes}
        q  == IF qs = {} THEN 0 ELSE Min(qs)
        gt == IF q >= h + 7 THEN NextChar(s, q + 1, ">") ELSE 0
        lt == IF gt > 0 THEN NextChar(s, gt + 1, "<") ELSE 0
    IN  IF /\ StartsAt(low, "href=", h)
           /\ CharAt(s, h + 5) \in Quotes
           /\ lt > 0
           /\ StartsAt(low, "</a>", lt)
        THEN [href |-> SubSeq(s, h + 6, q - 1), text |-> SubSeq(s, gt + 1, lt - 1), last |-> lt + 3]
        ELSE NoAnchor

AnchorAt(s, low, i) ==
    IF ~StartsAt(low, "<a", i) THEN NoAnchor
    ELSE LET gt0   == NextChar(s, i + 2, ">")
             limit == IF gt0 = 0 THEN Len(s) ELSE gt0 - 1
             hs    == {h \in (i + 3)..limit : AnchorFrom(s, low, h).last > 0}
         IN  IF hs = {} THEN NoAnchor ELSE AnchorFrom(s, low, Max(hs))

startsWith(s, prefix) == StartsAt(s, prefix, 1)

\* the while ((match = linkRegex.exec(content)) !== null) loop
RECURSIVE ExtractFrom(_, _, _, _)
ExtractFrom(s, low, sourceFile, from) ==
    LET starts == {i \in from..Len(s) : AnchorAt(s, low, i).last > 0}
    IN  IF starts = {} THEN <<>>
        ELSE LET i == Min(starts)
                 m == AnchorAt(s, low, i)
                 skip == \/ startsWith(m.href, "http")
                         \/ startsWith(m.href, "mailto:")
                         \/ startsWith(m.href, "tel:")
                         \/ startsWith(m.href, "#")
             IN  (IF skip THEN <<>>
                  ELSE <<[source |-> sourceFile, href |-> m.href, text |-> Trim(m.text),
                          line |-> LineOf(s, i)]>>)
                 \o ExtractFrom(s, low, sourceFile, m.last + 1)

extractLinks(text, sourceFile) == ExtractFrom(text, Lower(text), sourceFile, 1)

\* an existence test that takes every path to exist
fileExists_Always(files, filePath) == TRUE

\* fs.existsSync(filePath): files is the set of files of the site directory
fileExists(files, filePath) == filePath \in files

RECURSIVE MissingFrom(_, _, _, _)
MissingFrom(expectedPaths, actualPaths, sourceFile, k) ==
    IF k > Len(expectedPaths) THEN <<>>
    ELSE (IF expectedPaths[k] \in actualPaths THEN <<>>
          ELSE <<[type |-> "missing_expected_link", source |-> sourceFile,
                  expected |-> expectedPaths[k],
                  message |-> "Missing expected link to " \o expectedPaths[k]]>>)
         \o MissingFrom(expectedPaths, actualPaths, sourceFile, k + 1)

IsPath(link) == link.path # ""

\* validateAgainstMap; a map that could not be loaded (null) gives no issues
validateAgainstMap(map, links, sourceFile) ==
    IF ~map.readable \/ FindPattern(map, sourceFile) = 0 THEN <<>>
    ELSE LET to == SelectSeq(map.patterns[FindPattern(map, sourceFile)].to, IsPath)
             expectedPaths == [k \in 1..Len(to) |-> to[k].path]
             actualPaths == {links[k].href : k \in 1..Len(links)}
         IN  MissingFrom(expectedPaths, actualPaths, sourceFile, 1)

RECURSIVE BrokenFrom(_, _, _, _)
BrokenFrom(files, links, filePath, k) ==
    IF k > Len(links) THEN <<>>
    ELSE (IF fileExists(files, links[k].href) THEN <<>>
          ELSE <<[source |-> filePath, href |-> links[k].href, text |-> links[k].text,
                  line |-> links[k].line,
                  message |-> "Broken link to " \o links[k].href]>>)
         \o BrokenFrom(files, links, filePath, k + 1)

\* analyzeFile of check-links.js, on the text read from filePath
analyzeFileLinks(map, files, text, filePath) ==
    LET links == extractLinks(text, filePath)
        brokenLinks == BrokenFrom(files, links, filePath, 1)
        validationIssues == validateAgainstMap(map, links, filePath)
    IN  [file |-> filePath, links |-> links, broken |-> brokenLinks,
         validation |-> validationIssues,
         total |-> Len(brokenLinks) + Len(validationIssues)]

-----------------------------------------------------------------------------
(* audit-tokens.ts                                                         *)

\* /#[0-9A-Fa-f]{3,8}\b/ : the last position of the match that starts at i, 0 when
\* there is none; the run of hex digits has to end at a word boundary
AuditHexEnd(s, i) ==
    IF ~StartsAt(s, "#", i) THEN 0
    ELSE LET e == RunEnd(s, i + 1, HexChars)
         IN  IF e - i >= 3 /\ e - i <= 8 /\ CharAt(s, e + 1) \notin WordChars THEN e ELSE 0

\* /\b(?:rgb|hsl)a?\([^\)]*\)/
AuditColorFnEnd(s, i) ==
    LET a    == IF StartsAt(s, "rgb", i) \/ StartsAt(s, "hsl", i) THEN i + 3 ELSE 0
        b    == IF StartsAt(s, "a", a) THEN a + 1 ELSE a
        open == Expect(s, b, "(")
    IN  IF CharAt(s, i - 1) \in WordChars THEN 0 ELSE NextChar(s, open, ")")

LengthUnits == <<"px", "rem", "em", "vh", "vw">>

\* (?:px|rem|em|vh|vw)\b at p: the last position of the unit, 0 when none fits
UnitEnd(s, p) ==
    LET fits == {k \in 1..Len(LengthUnits) :
                    /\ StartsAt(s, LengthUnits[k], p)
                    /\ CharAt(s, p + Len(LengthUnits[k])) \notin WordChars}
    IN  IF fits = {} THEN 0 ELSE p + Len(LengthUnits[Min(fits)]) - 1

\* /\b\d+(?:\.\d+)?(?:px|rem|em|vh|vw)\b/
AuditLengthEnd(s, i) ==
    LET d == Plus(s, i, Digits)
        f == IF StartsAt(s, ".", d) THEN Plus(s, d + 1, Digits) ELSE 0
    IN  IF d = 0 \/ CharAt(s, i - 1) \in WordChars THEN 0
        ELSE IF f > 0 /\ UnitEnd(s, f) > 0 THEN UnitEnd(s, f)
        ELSE UnitEnd(s, d)

\* /\b(?:box-shadow|text-shadow)\s*:\s*[^;]*;/
AuditShadowEnd(s, i) ==
    LET a == IF StartsAt(s, "box-shadow", i) THEN i + 10
             ELSE IF StartsAt(s, "text-shadow", i) THEN i + 11 ELSE 0
        c == Expect(s, SkipWs(s, a), ":")
    IN  IF CharAt(s, i - 1) \in WordChars THEN 0 ELSE NextChar(s, c, ";")

\* patterns[p]: the last position of the match that starts at i, 0 when none
patterns(p, s, i) ==
    CASE p = 0 -> AuditHexEnd(s, i)
      [] p = 1 -> AuditColorFnEnd(s, i)
      [] p = 2 -> AuditLengthEnd(s, i)
      [] p = 3 -> AuditShadowEnd(s, i)

NumAuditPatterns == 4

\* line.match(pat) with the g flag
RECURSIVE MatchAudit(_, _, _)
MatchAudit(p, s, from) ==
    LET starts == {i \in from..Len(s) : patterns(p, s, i) > 0}
    IN  IF starts = {} THEN <<>>
        ELSE LET i == Min(starts)
                 e == patterns(p, s, i)
             IN  <<SubSeq(s, i, e)>> \o MatchAudit(p, s, e + 1)

\* content.split(/\r?\n/)
RECURSIVE SplitLines(_)
SplitLines(s) ==
    LET nl == NextChar(s, 1, "\n")
        cut(t) == IF CharAt(t, Len(t)) = "\r" THEN SubSeq(t, 1, Len(t) - 1) ELSE t
    IN  IF nl = 0 THEN <<s>>
        ELSE <<cut(SubSeq(s, 1, nl - 1))>> \o SplitLines(SubSeq(s, nl + 1, Len(s)))

\* m.forEach((s) => results.push({file, line: i+1, match: s}))
RECURSIVE PushMatches(_, _, _, _)
PushMatches(file, i, m, k) ==
    IF k > Len(m) THEN <<>>
    ELSE <<[file |-> file, line |-> i, match |-> m[k]]>> \o PushMatches(file, i, m, k + 1)

\* for (const pat of patterns) over one line
RECURSIVE AuditLineFrom(_, _, _, _)
AuditLineFrom(file, line, i, p) ==
    IF p >= NumAuditPatterns THEN <<>>
    ELSE PushMatches(file, i, MatchAudit(p, line, 1), 1) \o AuditLineFrom(file, line, i, p + 1)

\* lines.forEach((line, i) => ...)
RECURSIVE AuditLinesFrom(_, _, _)
AuditLinesFrom(file, lines, i) ==
    IF i > Len(lines) THEN <<>>
    ELSE AuditLineFrom(file, lines[i], i, 0) \o AuditLinesFrom(file, lines, i + 1)

\* the body of for (const file of files): the results one file adds
auditFile(text, file) == AuditLinesFrom(file, SplitLines(text), 1)

-----------------------------------------------------------------------------
(* The interlinking scripts as a state machine over a site directory       *)

MaxLinkRuns == 2

\* glob.sync('*.html') order of the files a site may hold
PageOrder ==
    << "home.html", "quote.html", "service-area-edmond.html", "service-areas.html",
       "service-residential.html" >>

RECURSIVE htmlFilesFrom(_, _)
htmlFilesFrom(files, k) ==
    IF k > Len(PageOrder) THEN <<>>
    ELSE (IF PageOrder[k] \in files THEN <<PageOrder[k]>> ELSE <<>>)
         \o htmlFilesFrom(files, k + 1)

htmlFiles(files) == htmlFilesFrom(files, 1)

HomeTexts ==
    { "<main><a href=\"quote.html\">Get Quote</a></main>",
      "<main><a href=\"old-quote.html\">Get Quote</a></main>",
      "<main><p>Welcome</p></main>",
      "<main><a href=\"quote.html\">Get Quote</a>\n<a href=\"quote.html\">Quote now</a></main>",
      "<main><a class=\"btn\" title=\"Get Quote\" href=\"contact.html\">Start</a></main>",
      "<main><a href=\"https://example.com/\">Partner</a> <a href=\"#top\">Top</a></main>",
      "<main><a href=\"quote.html\"><span>Get Quote</span></a></main>",
      "<main><A HREF='old-quote.html'>get quote</A></main>",
      "<main><a data-href=\"promo\" href=\"old-quote.html\">Get Quote</a></main>" }

QuoteText == "<main><h1>Quote</h1></main>"

ExtraTexts ==
    [ f \in {"service-area-edmond.html", "service-areas.html", "service-residential.html"} |->
        CASE f = "service-area-edmond.html" ->
               "<main><a href=\"service-residential.html\">Residential Moving</a></main>\n<footer class=\"site\"></footer>"
          [] f = "service-areas.html" ->
               "<main><div class=\"pill-list\">Edmond</div></main>"
          [] f = "service-residential.html" ->
               "<section class=\"hero\"></section>\n<main><a href=\"home.html\">Home</a></main>" ]

\* service pages without a hero section and without a main element
BareTexts ==
    [ f \in {"service-areas.html", "service-residential.html"} |->
        CASE f = "service-areas.html" ->
               "<div class=\"pill-list\">Edmond</div>"
          [] f = "service-residential.html" ->
               "<div><a href=\"home.html\">Home</a></div>" ]

Site(home, withQuote, withExtras) ==
    LET files == {"home.html"} \cup (IF withQuote THEN {"quote.html"} ELSE {})
                 \cup (IF withExtras THEN DOMAIN ExtraTexts ELSE {})
    IN  [f \in files |-> IF f = "home.html" THEN home
                         ELSE IF f = "quote.html" THEN QuoteText
                         ELSE ExtraTexts[f]]

BareSite(home) ==
    [f \in {"home.html", "quote.html"} \cup DOMAIN BareTexts |->
        IF f = "home.html" THEN home
        ELSE IF f = "quote.html" THEN QuoteText
        ELSE BareTexts[f]]

\* the home pages of the sites that also hold the service pages
ServiceSiteHomes == { "<main><a href=\"quote.html\">Get Quote</a></main>" }

Sites ==
    {Site(home, q, FALSE) : home \in HomeTexts, q \in BOOLEAN}
    \cup {Site(home, q, TRUE) : home \in ServiceSiteHomes, q \in BOOLEAN}
    \cup {BareSite(home) : home \in {"<main><p>Welcome</p></main>"}}

\* the files of a site that may be unreadable: none, or one of them
UnreadableSets(site) == {{}} \cup {{f} : f \in DOMAIN site \cap {"quote.html"}}

Edge(path, anchor, relate) == [path |-> path, anchor |-> anchor, relate |-> relate]

Record(from, to) == [from |-> from, to |-> to]

QuoteEdge == Edge("quote.html", "Get Quote", "")

\* interlinking-map.json as it may be; the last one cannot be read
LinkMaps ==
    { [readable |-> TRUE, patterns |-> <<Record("home.html", <<QuoteEdge>>)>>],
      [readable |-> TRUE, patterns |->
          << Record("home.html",
                    <<QuoteEdge, Edge("service-residential.html", "Residential Moving", "sibling-service")>>),
             Record("service-area-edmond.html",
                    <<Edge("service-residential.html", "Residential Moving", "")>>),
             Record("service-areas.html",
                    <<Edge("service-area-edmond.html", "Edmond local movers", "")>>) >>],
      [readable |-> TRUE, patterns |->
          << Record("home.html", <<QuoteEdge>>),
             Record("home.html", <<Edge("service-residential.html", "Residential Moving", "")>>) >>],
      [readable |-> TRUE, patterns |->
          << Record("home.html",
                    <<QuoteEdge, Edge("service-residential.html", "Get Quote", "")>>) >>],
      [readable |-> FALSE, patterns |-> <<>>] }

InitLinks ==
    /\ pages0 \in Sites
    /\ pages = pages0
    /\ linkMap \in LinkMaps
    /\ linkRuns = 0
    /\ linkOut = NoRun
    /\ unreadable \in UnreadableSets(pages0)
    /\ TokensIdle
    /\ ThemeIdle

\* the files main's catch logs with "Error processing": those that cannot be read
RECURSIVE FailedFrom(_, _, _)
FailedFrom(files, bad, k) ==
    IF k > Len(files) THEN <<>>
    ELSE (IF files[k] \in bad THEN <<files[k]>> ELSE <<>>) \o FailedFrom(files, bad, k + 1)

\* apply-interlinking-map.js: loading the map at module load throws when it cannot
\* be read; main returns before any file when a target is missing, and otherwise
\* runs processFile over every *.html file of the directory, a file whose
\* processFile throws staying as it is
ApplyLinks ==
    /\ linkRuns < MaxLinkRuns
    /\ linkRuns' = linkRuns + 1
    /\ IF ~linkMap.readable
       THEN /\ linkOut' = [cmd |-> "apply-interlinking-map", status |-> "fatal", errors |-> <<>>]
            /\ UNCHANGED pages
       ELSE IF ~validateTargets(linkMap, DOMAIN pages)
       THEN /\ linkOut' = [cmd |-> "apply-interlinking-map", status |-> "aborted", errors |-> <<>>]
            /\ UNCHANGED pages
       ELSE /\ pages' = [f \in DOMAIN pages |->
                            IF f \in unreadable THEN pages[f]
                            ELSE processFileLinks(linkMap, pages[f], f)]
            /\ linkOut' = [cmd |-> "apply-interlinking-map", status |-> "done",
                           errors |-> FailedFrom(htmlFiles(DOMAIN pages), unreadable, 1)]
    /\ UNCHANGED <<pages0, linkMap, unreadable, tokenVars, themeVars>>

RECURSIVE SumTotals(_, _)
SumTotals(results, k) ==
    IF k > Len(results) THEN 0 ELSE results[k].total + SumTotals(results, k + 1)

\* the result check-links.js main takes for a file whose analyzeFile threw
NoLinkResult(file) ==
    [file |-> file, links |-> <<>>, broken |-> <<>>, validation |-> <<>>, total |-> 0]

\* htmlFiles.map(file => { try { return analyzeFile(file) } catch ... })
RECURSIVE AnalyzeLinksFrom(_, _, _, _, _)
AnalyzeLinksFrom(map, site, bad, files, k) ==
    IF k > Len(files) THEN <<>>
    ELSE <<IF files[k] \in bad THEN NoLinkResult(files[k])
           ELSE analyzeFileLinks(map, DOMAIN site, site[files[k]], files[k])>>
         \o AnalyzeLinksFrom(map, site, bad, files, k + 1)

\* a report that always ends with status 0
CheckLinksReport_Silent(results) ==
    [cmd |-> "check-links", results |-> results, exit |-> 0]

\* check-links.js main: analyzeFile over every *.html file, exit status 1 on issues
CheckLinksReport(results) ==
    [cmd |-> "check-links", results |-> results,
     exit |-> IF SumTotals(results, 1) > 0 THEN 1 ELSE 0]

\* an audit that writes every page back in lower case
CheckLinks_Writing ==
    /\ linkOut' = CheckLinksReport(
                      AnalyzeLinksFrom(linkMap, pages, unreadable, htmlFiles(DOMAIN pages), 1))
    /\ pages' = [f \in DOMAIN pages |-> Lower(pages[f])]
    /\ UNCHANGED <<pages0, linkMap, linkRuns, unreadable, tokenVars, themeVars>>

CheckLinks ==
    /\ linkOut' = CheckLinksReport(
                      AnalyzeLinksFrom(linkMap, pages, unreadable, htmlFiles(DOMAIN pages), 1))
    /\ UNCHANGED <<pages0, pages, linkMap, linkRuns, unreadable, tokenVars, themeVars>>

\* the result verify-design-tokens.js main takes for a file whose analyzeFile threw
NoTokenResult(file) ==
    [file |-> file, hardcoded |-> <<>>, unused |-> <<>>, legacy |-> <<>>, total |-> 0]

\* htmlFiles.map(file => { try { return analyzeFile(file) } catch ... })
RECURSIVE AnalyzeTokensFrom(_, _, _, _)
AnalyzeTokensFrom(site, bad, files, k) ==
    IF k > Len(files) THEN <<>>
    ELSE <<IF files[k] \in bad THEN NoTokenResult(files[k])
           ELSE analyzeFileTokens(site[files[k]], files[k])>>
         \o AnalyzeTokensFrom(site, bad, files, k + 1)

\* verify-design-tokens.js main over the site directory
VerifyPagesReport(results) ==
    [cmd |-> "verify-design-tokens", results |-> results,
     exit |-> IF SumTotals(results, 1) > 0 THEN 1 ELSE 0]

VerifyPages ==
    /\ linkOut' = VerifyPagesReport(
                      AnalyzeTokensFrom(pages, unreadable, htmlFiles(DOMAIN pages), 1))
    /\ UNCHANGED <<pages0, pages, linkMap, linkRuns, unreadable, tokenVars, themeVars>>

NextLinks == ApplyLinks \/ CheckLinks

LinkSpec == InitLinks /\ [][NextLinks]_vars

-----------------------------------------------------------------------------
(* The audits and the rewriter over sites of two pages                     *)

\* home pages that carry styles
StyledHomes ==
    { "<style>a{color:#FF7A00;margin:1rem}</style>\n<main><a href=\"quote.html\">Get Quote</a></main>",
      "<main style=\"box-shadow: 0 1px 2px rgba(0,0,0,.06);\"><p>Welcome</p></main>",
      "<main><p style=\"padding:12px;color:var(--color-brand-primary)\">Welcome</p>\n<p style=\"padding:12px\">Bye</p></main>" }

AuditSites == {Site(home, q, FALSE) : home \in HomeTexts \cup StyledHomes, q \in BOOLEAN}

InitAudit ==
    /\ pages0 \in AuditSites
    /\ pages = pages0
    /\ linkMap \in LinkMaps
    /\ linkRuns = 0
    /\ linkOut = NoRun
    /\ unreadable \in UnreadableSets(pages0)
    /\ TokensIdle
    /\ ThemeIdle

\* for (const file of files) { fs.readFileSync(file) ... }: the loop has no catch
RECURSIVE AuditFilesFrom(_, _, _)
AuditFilesFrom(site, files, k) ==
    IF k > Len(files) THEN <<>>
    ELSE auditFile(site[files[k]], files[k]) \o AuditFilesFrom(site, files, k + 1)

\* audit-tokens.ts: process.exitCode = 1 when there are results
AuditTokensReport(results) ==
    [cmd |-> "audit-tokens", crashed |-> FALSE, results |-> results,
     exit |-> IF Len(results) = 0 THEN 0 ELSE 1]

\* audit-tokens.ts over the site directory; a file that cannot be read ends the
\* process with an uncaught exception before anything is reported
AuditPages ==
    /\ IF unreadable # {}
       THEN linkOut' = [cmd |-> "audit-tokens", crashed |-> TRUE, results |-> <<>>, exit |-> 1]
       ELSE linkOut' = AuditTokensReport(AuditFilesFrom(pages, htmlFiles(DOMAIN pages), 1))
    /\ UNCHANGED <<pages0, pages, linkMap, linkRuns, unreadable, tokenVars, themeVars>>

NextAudit == ApplyLinks \/ CheckLinks \/ VerifyPages \/ AuditPages

AuditSpec == InitAudit /\ [][NextAudit]_vars

-----------------------------------------------------------------------------
(* design/tokens/index.ts and the ThemeSwitcher component                  *)

\* type ThemeName, and the themes array of the ThemeSwitcher
themes == << "current", "theme-1", "theme-2", "theme-3", "theme-4", "theme-5" >>

ThemeName == {themes[k] : k \in 1..Len(themes)}

\* Strings a caller may hand to setTheme at run time (the type is erased), and
\* values the "theme" item of localStorage may hold
CallerNames == ThemeName \cup {"theme-9", ""}

StoredValues == ThemeName \cup {NoValue, "dark"}

StorageModes == {"ok", "readonly", "denied"}

\* a read that hands back whatever the store holds
getSavedTheme_Unchecked(item, mode) == item

\* getSavedTheme: the stored item when it is a ThemeName; null when it is
\* anything else, absent, or localStorage throws
getSavedTheme(item, mode) ==
    IF mode = "denied" THEN NoValue
    ELSE IF item \in ThemeName THEN item
    ELSE NoValue

\* root.dataset.theme = name === "current" ? "" : name
DatasetTheme(name) == IF name = "current" THEN "" ELSE name

\* try { localStorage.setItem("theme", name) } catch {}
StoredAfterSet(item, mode, name) == IF mode = "ok" THEN name ELSE item

\* The theme the document shows: the theme of data-theme, the base tokens
\* ("current") when the attribute is empty or unset
ActiveTheme == IF dataTheme = "" THEN "current" ELSE dataTheme

InitTheme ==
    /\ hasDocument \in BOOLEAN
    /\ dataTheme = ""
    /\ stored \in StoredValues
    /\ storage \in StorageModes
    /\ selected = NoValue
    /\ themeOut = NoRun
    /\ TokensIdle
    /\ LinksIdle

\* setTheme(name)
SetTheme(name) ==
    /\ IF hasDocument
       THEN /\ dataTheme' = DatasetTheme(name)
            /\ stored' = StoredAfterSet(stored, storage, name)
       ELSE UNCHANGED <<dataTheme, stored>>
    /\ themeOut' = [cmd |-> "setTheme", name |-> name, error |-> "none"]

CallSetTheme ==
    \E name \in CallerNames :
        /\ SetTheme(name)
        /\ UNCHANGED <<hasDocument, storage, selected, tokenVars, linkVars>>

CallGetSavedTheme ==
    /\ themeOut' = [cmd |-> "getSavedTheme", value |-> getSavedTheme(stored, storage)]
    /\ UNCHANGED <<hasDocument, dataTheme, stored, storage, selected, tokenVars, linkVars>>

\* ThemeSwitcher(): the select starts at getSavedTheme() || "current"
MountThemeSwitcher ==
    /\ hasDocument
    /\ selected = NoValue
    /\ LET saved == IF getSavedTheme(stored, storage) = NoValue THEN "current"
                    ELSE getSavedTheme(stored, storage)
       IN  /\ selected' = saved
           /\ themeOut' = [cmd |-> "ThemeSwitcher", saved |-> saved]
    /\ UNCHANGED <<hasDocument, dataTheme, stored, storage, tokenVars, linkVars>>

\* onChange of the select: one of the options is chosen
OnChange ==
    /\ selected # NoValue
    /\ \E value \in ThemeName :
        /\ value # selected
        /\ selected' = value
        /\ SetTheme(value)
    /\ UNCHANGED <<hasDocument, storage, tokenVars, linkVars>>

\* The page is loaded again: a fresh document, localStorage stays
Reload ==
    /\ hasDocument
    /\ dataTheme' = ""
    /\ selected' = NoValue
    /\ themeOut' = [cmd |-> "reload"]
    /\ UNCHANGED <<hasDocument, stored, storage, tokenVars, linkVars>>

NextTheme == CallSetTheme \/ CallGetSavedTheme \/ MountThemeSwitcher \/ OnChange \/ Reload

ThemeSpec == InitTheme /\ [][NextTheme]_vars

-----------------------------------------------------------------------------
(* Properties of the token scripts (TokenSpec)                             *)

AllKeys == MappingKeys(allMappings, 1)

\* The value tokens.css declares for a reference var(--name); "" when the
\* excerpt does not declare the name
TokenValueOf(ref) ==
    LET decl == TokenNameOf(ref) \o ": "
        at   == indexOf(TOKENS_CSS, "--" \o decl)
        from == at + Len(decl) + 2
    IN  IF at = 0 THEN ""
        ELSE SubSeq(TOKENS_CSS, from, NextChar(TOKENS_CSS, from, ";") - 1)

IsReference(s) == VarRefEnd(s, 1) = Len(s) /\ Len(s) > 0

ResolvedKey == [k \in AllKeys |-> applyTokenReplacements(k)]

\* C1: for every input text, applying applyTokenReplacements to its own output
\* returns that output unchanged (here as to the text the resolver wrote to the file)
C1_Idempotent ==
    /\ LET once == applyTokenReplacements(input)
       IN  applyTokenReplacements(once) = once
    /\ passes >= 1 => applyTokenReplacements(content) = content

\* the resolver has run and rewrote the text
C1_Witness ==
    /\ passes >= 1
    /\ content # input
    /\ applyTokenReplacements(content) = content

\* C5: once the resolver has mapped a literal to a reference, the value the token
\* table holds for that reference is the literal, and no other literal is mapped
\* to the same reference
C5_RoundTrip ==
    (passes >= 1 /\ input \in AllKeys /\ IsReference(content)) =>
        /\ TokenValueOf(content) # "" => Lower(TokenValueOf(content)) = Lower(input)
        /\ \A k \in AllKeys : ResolvedKey[k] = content => k = input

\* C6: "color: #FFD700;" is rewritten to "color: var(--color-brand-secondary);"
\* and the audit of the rewritten line has no hardcoded-value finding
C6_GoldResolved ==
    (passes >= 1 /\ input = "color: #FFD700;") =>
        /\ content = "color: var(--color-brand-secondary);"
        /\ tokenOut.cmd = "verify-design-tokens" => tokenOut.results[1].hardcoded = <<>>

\* C7: the audit of a text with the one legacy reference --space-1 has exactly one
\* legacy-token finding, and its suggestion is the complete successor name
C7_LegacySuggestion ==
    (tokenOut.cmd = "verify-design-tokens" /\ content \in {"var(--space-1)", "var(--old-space-1)"}) =>
        /\ Len(tokenOut.results[1].legacy) = 1
        /\ tokenOut.results[1].legacy[1].suggestion \in {"--space-sm", "var(--space-sm)"}
        /\ content = input

\* C9: a text that is one key of a mapping table alone is rewritten to the token
\* every table listing that key assigns to it
C9_EveryKeyEffective ==
    passes >= 1 =>
        \A j \in 1..Len(allMappings) : \A k \in 1..Len(allMappings[j]) :
            allMappings[j][k][1] = input => content = allMappings[j][k][2]

-----------------------------------------------------------------------------
(* Properties of the theme selection (ThemeSpec)                           *)

\* C2: setTheme(x) with x outside the enumerated set fails with InvalidTheme and
\* changes neither the active theme nor the persisted theme
C2_InvalidRejected ==
    [][\A name \in CallerNames \ ThemeName :
          SetTheme(name) =>
              /\ themeOut'.error = "InvalidTheme"
              /\ dataTheme' = dataTheme
              /\ stored' = stored]_vars

\* C10: setTheme(x) with a valid x whose persistence write fails completes without
\* raising and makes x the active theme, and the read of the theme that follows
\* returns x
C10_SetSurvivesWriteFailure ==
    [][/\ \A x \in ThemeName :
             (SetTheme(x) /\ hasDocument /\ storage # "ok")
             => (themeOut'.error = "none" /\ dataTheme' = DatasetTheme(x))
       /\ (themeOut.cmd = "setTheme" /\ themeOut.name \in ThemeName
              /\ hasDocument /\ storage # "ok" /\ CallGetSavedTheme)
          => themeOut'.value = themeOut.name]_vars

\* the persisted theme is absent, is no ThemeName, or the store throws on read
NoSelection == stored \notin ThemeName \/ storage = "denied"

\* C11: a read of the persisted theme returns a ThemeName or null and never an
\* error; it returns null when the persisted value is absent, is not a ThemeName or
\* the store throws, and the ThemeSwitcher then starts at "current"
C11_ReadFallsBack ==
    /\ themeOut.cmd = "getSavedTheme" =>
          /\ themeOut.value \in ThemeName \cup {NoValue}
          /\ NoSelection => themeOut.value = NoValue
    /\ themeOut.cmd = "ThemeSwitcher" =>
          /\ themeOut.saved \in ThemeName
          /\ NoSelection => (themeOut.saved = "current" /\ selected = "current")

\* the ThemeSwitcher was mounted over a persisted value that is no ThemeName
C11_Witness ==
    /\ themeOut.cmd = "ThemeSwitcher"
    /\ stored = "dark"
    /\ storage = "ok"
    /\ selected = "current"

-----------------------------------------------------------------------------
(* Properties of the interlinking scripts (LinkSpec)                       *)

\* The anchors of the form <a href="X">T</a> in a text: <<X, T>>, X free of
\* quotes and '>', T free of '<'
PlainAnchorAt(s, i) ==
    LET q  == NextChar(s, i + 9, "\"")
        lt == IF q > 0 THEN NextChar(s, q + 2, "<") ELSE 0
    IN  IF /\ StartsAt(s, "<a href=\"", i)
           /\ q > 0
           /\ StartsAt(s, "\">", q)
           /\ lt > 0
           /\ StartsAt(s, "</a>", lt)
           /\ \A j \in (i + 9)..(q - 1) : SubSeq(s, j, j) \notin {"'", ">"}
        THEN <<SubSeq(s, i + 9, q - 1), SubSeq(s, q + 2, lt - 1)>>
        ELSE <<>>

PlainAnchorStarts(s) == {i \in 1..Len(s) : PlainAnchorAt(s, i) # <<>>}

\* the page text holds a plain anchor with this text
HoldsPlainAnchor(s, anchor) ==
    \E i \in PlainAnchorStarts(s) : PlainAnchorAt(s, i)[2] = anchor

\* number of plain anchors of the text whose href is target
PlainAnchorsTo(s, target) ==
    Cardinality({i \in PlainAnchorStarts(s) : PlainAnchorAt(s, i)[1] = target})

\* what the audit sees of a page
HasAnchorTo(text, file, target) ==
    \E k \in 1..Len(extractLinks(text, file)) : extractLinks(text, file)[k].href = target

MissingReported(text, file, target) ==
    LET issues == validateAgainstMap(linkMap, extractLinks(text, file), file)
    IN  \E k \in 1..Len(issues) : issues[k].expected = target

\* the rewriter has run over the pages: the map was readable and every target exists
Applied == linkRuns >= 1 /\ linkMap.readable /\ validateTargets(linkMap, DOMAIN pages)

\* every entry without relate of every record of the map whose from is the page
EdgesFrom(map, file) ==
    UNION { {map.patterns[k].to[j] :
                j \in {j \in 1..Len(map.patterns[k].to) :
                          map.patterns[k].to[j].relate = "" /\ map.patterns[k].to[j].path # ""}} :
            k \in {k \in 1..Len(map.patterns) : map.patterns[k].from = file} }

LaterClash(to, k) ==
    \E j \in (k + 1)..Len(to) :
        /\ to[j].relate = ""
        /\ \/ Lower(to[j].anchor) = Lower(to[k].anchor)
           \/ /\ to[j].path # to[k].path
              /\ Len(to[j].path) = Len(to[k].path)
              /\ PathMatchesAt(Lower(to[k].path), 1, to[j].path)

QuoteMissing ==
    /\ linkMap.readable
    /\ \E k \in 1..Len(getLinksForFile(linkMap, "home.html")) :
          getLinksForFile(linkMap, "home.html")[k] = QuoteEdge
    /\ "quote.html" \notin DOMAIN pages

ResultFor(results, file) ==
    results[CHOOSE k \in 1..Len(results) : results[k].file = file]

BrokenTo(result, target) ==
    Cardinality({k \in 1..Len(result.broken) : result.broken[k].href = target})

-----------------------------------------------------------------------------
(* Properties of the audits (AuditSpec)                                    *)

AuditCmds == {"check-links", "verify-design-tokens", "audit-tokens"}

\* the report of an audit run holds no finding
NoFindings(out) ==
    IF out.cmd = "check-links"
    THEN \A k \in 1..Len(out.results) :
            out.results[k].broken = <<>> /\ out.results[k].validation = <<>>
    ELSE IF out.cmd = "verify-design-tokens"
    THEN \A k \in 1..Len(out.results) :
            /\ out.results[k].hardcoded = <<>>
            /\ out.results[k].unused = <<>>
            /\ out.results[k].legacy = <<>>
    ELSE out.results = <<>>

\* C12: a run of the link audit or of a token audit leaves the text of every page
\* and the link graph as they were
C12_AuditReadOnly ==
    [][linkOut'.cmd \in AuditCmds => (pages' = pages /\ linkMap' = linkMap)]_vars

\* the link audit has run and reported findings, and the pages are the pages of
\* before the run
C12_Witness ==
    /\ linkOut.cmd = "check-links"
    /\ ~NoFindings(linkOut)
    /\ linkRuns = 0
    /\ pages = pages0

\* C13: when a page cannot be read, the link audit and the token audit have a
\* finding for that page, the run's total is at least one, and there is a result
\* for every page
C13_ReadErrorIsFinding ==
    (linkOut.cmd \in {"check-links", "verify-design-tokens"} /\ unreadable # {}) =>
        /\ \A f \in unreadable : ResultFor(linkOut.results, f).total >= 1
        /\ SumTotals(linkOut.results, 1) >= 1
        /\ linkOut.exit # 0
        /\ Len(linkOut.results) = Len(htmlFiles(DOMAIN pages))

AnchorHrefs(s) ==
    LET low == Lower(s)
        close(h) == NextChar(s, h + 6, CharAt(s, h + 5))
        inTag(h) == \E i \in 1..h :
                        /\ StartsAt(low, "<a", i)
                        /\ CharAt(s, i + 2) \in Whitespace
                        /\ NextChar(s, i, ">") \in {0} \cup (h + 1)..Len(s)
    IN  { SubSeq(s, h + 6, close(h) - 1) :
            h \in {h \in 2..Len(s) :
                     /\ StartsAt(low, "href=", h)
                     /\ CharAt(s, h - 1) \in Whitespace
                     /\ CharAt(s, h + 5) \in Quotes
                     /\ close(h) > h + 6
                     /\ inTag(h)} }

\* an href the audit has to resolve: no external-scheme prefix, no fragment
IsInternal(href) ==
    /\ ~startsWith(href, "http")
    /\ ~startsWith(href, "mailto:")
    /\ ~startsWith(href, "tel:")
    /\ ~startsWith(href, "#")

\* C15: the link audit of a page has a broken-link finding for an href exactly when
\* an a element of the page carries the href, the href is internal and it is no
\* page of the site
C15_BrokenIffUnresolved ==
    linkOut.cmd = "check-links" =>
        \A k \in 1..Len(linkOut.results) :
            LET result == linkOut.results[k]
                hrefs  == AnchorHrefs(pages[result.file])
            IN  result.file \notin unreadable =>
                    /\ \A href \in hrefs :
                          BrokenTo(result, href) >= 1
                              <=> (IsInternal(href) /\ href \notin DOMAIN pages)
                    /\ \A j \in 1..Len(result.broken) : result.broken[j].href \in hrefs

\* every path an entry of the map names, tagged or not
MapPaths(map) ==
    UNION { {map.patterns[k].to[j].path : j \in 1..Len(map.patterns[k].to)} :
            k \in 1..Len(map.patterns) }

\* C16: the link audit of a page reports a missing expected link to a path exactly
\* when some record of the map whose from is the page has an entry without relate
\* for the path and no a element of the page carries the path as href
C16_MissingIffUnlinked ==
    (linkOut.cmd = "check-links" /\ linkMap.readable) =>
        \A k \in 1..Len(linkOut.results) :
            LET result == linkOut.results[k]
                hrefs  == AnchorHrefs(pages[result.file])
            IN  result.file \notin unreadable =>
                    \A path \in MapPaths(linkMap) :
                        (\E j \in 1..Len(result.validation) : result.validation[j].expected = path)
                            <=> (/\ path \notin hrefs
                                 /\ \E edge \in EdgesFrom(linkMap, result.file) : edge.path = path)


\* the end of the href attribute that starts at i with a blank (" href=", either
\* quote, any case), or 0
HrefAttrEnd(low, i) ==
    IF ~StartsAt(low, " href=", i) \/ CharAt(low, i + 6) \notin {"\"", "'"} THEN 0
    ELSE LET ends == {e \in (i + 7)..Len(low) : CharAt(low, e) \in {"\"", "'"}}
         IN  IF ends = {} THEN 0 ELSE Min(ends)

\* the text with the value of every href attribute blanked out
RECURSIVE HrefMask(_)
HrefMask(s) ==
    LET low    == Lower(s)
        starts == {i \in 1..Len(s) : HrefAttrEnd(low, i) > 0}
    IN  IF starts = {} THEN s
        ELSE LET i == Min(starts)
             IN  SubSeq(s, 1, i - 1) \o " href=\"\""
                 \o HrefMask(SubSeq(s, HrefAttrEnd(low, i) + 1, Len(s)))

\* C17: updateLinksInContent changes a page of the site in nothing but the values
\* of href attributes, and returns the text as it is when the map has no entry for
\* the page
C17_OnlyHrefValues ==
    Applied =>
        \A f \in DOMAIN pages0 :
            LET updated == updateLinksInContent(linkMap, pages0[f], f)
            IN  /\ HrefMask(updated) = HrefMask(pages0[f])
                /\ Len(getLinksForFile(linkMap, f)) = 0 => updated = pages0[f]

\* the single values among the literals (no declaration, no list, no reference)
\* that are no key of the mappings
UnmappedValues ==
    {m \in TokenLiterals \ AllKeys : ~includes(m, " ") /\ ~IsReference(m)}

\* C18: a single value that is no key of the mappings is, standing alone, the same
\* text after the resolver has run
C18_UnmappedUnchanged ==
    (passes >= 1 /\ input \in UnmappedValues) => content = input


\* tokens.css declares the custom property --name
DeclaredInTable(name) == includes(TOKENS_CSS, "--" \o name \o ":")

\* C19: the token audit of the page has an undefined_token finding for the name of
\* a var(--name) reference of the page exactly when tokens.css does not declare it
C19_UndefinedIffAbsent ==
    tokenOut.cmd = "verify-design-tokens" =>
        LET refs   == MatchVarRefs(content, 1)
            unused == tokenOut.results[1].unused
        IN  \A k \in 1..Len(refs) :
                (\E j \in 1..Len(unused) : unused[j].token = TokenNameOf(refs[k]))
                    <=> ~DeclaredInTable(TokenNameOf(refs[k]))


\* the page as processFile hands it to updateBreadcrumbs in the first run
BeforeBreadcrumbs(f) ==
    addStrategicLinks(linkMap, updateLinksInContent(linkMap, pages0[f], f), f)

\* a page with breadcrumbs declared whose text has neither the end of a hero section
\* nor the start of main
NoInsertionPoint(f) ==
    /\ f \in DOMAIN breadcrumbMappings
    /\ HeroEnd(BeforeBreadcrumbs(f))[1] = 0
    /\ MainStart(BeforeBreadcrumbs(f))[1] = 0

\* C20: after a run of the rewriter, a page with declared breadcrumbs and no
\* insertion point holds the text of the earlier rewrites, without breadcrumbs, and
\* the run names the page among the conditions it reports
C20_NoInsertionPointSurfaced ==
    (linkRuns = 1 /\ linkOut.cmd = "apply-interlinking-map" /\ linkOut.status = "done") =>
        \A f \in DOMAIN pages0 \ unreadable :
            NoInsertionPoint(f) =>
                /\ pages[f] = BeforeBreadcrumbs(f)
                /\ \E k \in 1..Len(linkOut.errors) : linkOut.errors[k] = f


\* C21: in the first run of the rewriter every page that can be read is processed
\* whatever happens to the other pages, and no page is processed only when the map
\* itself cannot be read
C21_OnlyMapFailureStopsBatch ==
    (linkRuns = 1 /\ linkOut.cmd = "apply-interlinking-map") =>
        /\ linkOut.status # "done" => ~linkMap.readable
        /\ linkMap.readable =>
              \A f \in DOMAIN pages \ unreadable :
                  pages[f] = processFileLinks(linkMap, pages0[f], f)


\* the characters of token names, in code unit order
NameAlphabet == "()-0123456789abcdefghijklmnopqrstuvwxyz"

\* a < b as strings of NameAlphabet, compared by code units
RECURSIVE LexLess(_, _)
LexLess(a, b) ==
    IF Len(b) = 0 THEN FALSE
    ELSE IF Len(a) = 0 THEN TRUE
    ELSE LET x == indexOf(NameAlphabet, CharAt(a, 1))
             y == indexOf(NameAlphabet, CharAt(b, 1))
         IN  IF x # y THEN x < y
             ELSE LexLess(SubSeq(a, 2, Len(a)), SubSeq(b, 2, Len(b)))

\* the references the mapping tables hold for a literal
RefsOf(literal) ==
    UNION { {allMappings[j][k][2] : k \in {k \in 1..Len(allMappings[j]) :
                                              allMappings[j][k][1] = literal}} :
            j \in 1..Len(allMappings) }

\* the literals more than one token stands for
SharedKeys == {k \in AllKeys : Cardinality(RefsOf(k)) > 1}

\* C22: a literal several tokens share, standing alone, is resolved to the reference
\* with the lexicographically earliest name
C22_EarliestTokenWins ==
    (passes >= 1 /\ input \in SharedKeys) =>
        /\ content \in RefsOf(input)
        /\ \A ref \in RefsOf(input) : ~LexLess(ref, content)


\* the hardcoded_value findings of the last token audit of the page
HardcodedFindings == tokenOut.results[1].hardcoded

\* C23: the token audit of the page reports a match of a pattern as hardcoded_value
\* exactly when the matched text is no entry of ALLOWED_EXCEPTIONS
C23_SuppressedIffException ==
    tokenOut.cmd = "verify-design-tokens" =>
        \A index \in 0..(NumHardcodedPatterns - 1) :
            LET matches == MatchHardcoded(index, content, 1)
            IN  \A k \in 1..Len(matches) :
                    (\E j \in 1..Len(HardcodedFindings) :
                        /\ HardcodedFindings[j].pattern = index
                        /\ HardcodedFindings[j].value = Trim(matches[k]))
                    <=> ~(\E e \in 1..Len(ALLOWED_EXCEPTIONS) : ALLOWED_EXCEPTIONS[e] = matches[k])


\* the spans <<first, last>> of the matches of a pattern, leftmost first
RECURSIVE SpansOf(_, _, _)
SpansOf(index, s, from) ==
    LET starts == {i \in from..Len(s) : HARDCODED_PATTERNS(index, s, i) > 0}
    IN  IF starts = {} THEN {}
        ELSE LET i == Min(starts)
                 e == HARDCODED_PATTERNS(index, s, i)
             IN  {<<i, e>>} \cup SpansOf(index, s, e + 1)

\* the spans of the page some pattern matches and no exception suppresses
LiteralSpans ==
    UNION { {sp \in SpansOf(index, content, 1) : ~isException(SubSeq(content, sp[1], sp[2]))} :
            index \in 0..(NumHardcodedPatterns - 1) }

\* C24: the token audit of the page has no more hardcoded_value findings than the
\* page has spans that are matched and not suppressed
C24_OneFindingPerSpan ==
    tokenOut.cmd = "verify-design-tokens" =>
        Len(HardcodedFindings) <= Cardinality(LiteralSpans)


\* the lines of the findings of the last token audit for one pattern, in the order
\* of the report
FindingLines(index) ==
    LET found == SelectSeq(HardcodedFindings, LAMBDA issue : issue.pattern = index)
    IN  [k \in 1..Len(found) |-> found[k].line]

\* the lines of the occurrences of one pattern that no exception suppresses, in
\* document order
OccurrenceLines(index) ==
    LET spans == {sp \in SpansOf(index, content, 1) :
                     ~isException(SubSeq(content, sp[1], sp[2]))}
    IN  [k \in 1..Cardinality(spans) |->
            LineOf(content, (CHOOSE sp \in spans :
                                Cardinality({q \in spans : q[1] < sp[1]}) = k - 1)[1])]

NonDecreasing(issues) ==
    \A j \in 1..(Len(issues) - 1) : issues[j].line <= issues[j + 1].line

\* C25: in the token audit of the page the line numbers of successive findings do
\* not decrease, and the findings of a pattern carry, one for one, the lines of its
\* occurrences
C25_DocumentOrder ==
    tokenOut.cmd = "verify-design-tokens" =>
        /\ NonDecreasing(HardcodedFindings)
        /\ NonDecreasing(tokenOut.results[1].legacy)
        /\ \A index \in 0..(NumHardcodedPatterns - 1) :
               FindingLines(index) = OccurrenceLines(index)


\* C26: every var(--name) reference of the input is, at the same place in the order
\* of references, a reference of the text the resolver wrote
C26_ReferencesUntouched ==
    passes >= 1 =>
        LET before == MatchVarRefs(input, 1)
            after  == MatchVarRefs(content, 1)
        IN  \A k \in 1..Len(before) : \E j \in 1..Len(after) : after[j] = before[k]


\* the theme a start of the page has to activate: the stored one when it is a
\* ThemeName, the default otherwise
PersistedTheme == IF stored \in ThemeName THEN stored ELSE "current"

\* C27: with a document, a working store and the ThemeSwitcher mounted, the theme
\* the document shows is the persisted theme
C27_ActiveIsPersisted ==
    (hasDocument /\ storage = "ok" /\ selected # NoValue /\ ActiveTheme \in ThemeName) =>
        ActiveTheme = PersistedTheme


\* C28: once the rewriter has run, processFile over a page it wrote leaves the page
\* as it is
C28_ProcessFileIdempotent ==
    (Applied /\ linkOut.cmd = "apply-interlinking-map") =>
        \A f \in DOMAIN pages \ unreadable :
            processFileLinks(linkMap, pages[f], f) = pages[f]


\* C29: the token audit of a page that held one mapped literal and that the
\* resolver has rewritten has no legacy_token finding
C29_WrittenRefsNotLegacy ==
    (tokenOut.cmd = "verify-design-tokens" /\ passes >= 1 /\ input \in AllKeys) =>
        Len(tokenOut.results[1].legacy) = 0


\* the number of broken link findings the link audit has over a site
RECURSIVE BrokenCount(_, _, _)
BrokenCount(site, files, k) ==
    IF k > Len(files) THEN 0
    ELSE Len(analyzeFileLinks(linkMap, DOMAIN site, site[files[k]], files[k]).broken)
         + BrokenCount(site, files, k + 1)

\* C30: when the link audit of the site as it was has no broken link, the audit of
\* the site after the first run of the rewriter has none
C30_NoNewBrokenLinks ==
    (linkRuns = 1 /\ Applied /\ linkOut.cmd = "apply-interlinking-map"
     /\ BrokenCount(pages0, htmlFiles(DOMAIN pages0), 1) = 0) =>
        BrokenCount(pages, htmlFiles(DOMAIN pages), 1) = 0

=============================================================================
